---- MODULE Spec2Model ----
(***************************************************************************)
(* A model of bin/create-fast-turbo.js: the template walk                   *)
(* (shouldIgnore, instantScaffold), the manifest rewriter                   *)
(* (configurePackageManager, copyNpmrc), template validation, the           *)
(* background installer (installDependencies) and main with its catch       *)
(* block.                                                                   *)
(*                                                                          *)
(* Strings the code inspects character by character (file names, ignore     *)
(* patterns, command-line arguments, project names) are sequences of        *)
(* one-character strings, so that the regular expressions of the source    *)
(* are computed and not assumed.  A path is a sequence of names.  A         *)
(* directory tree is a set of entries [path, kind, text, content]; a tree   *)
(* that holds the entry of path <<>> exists, the empty set is an absent     *)
(* directory.                                                               *)
(***************************************************************************)
EXTENDS Naturals, Sequences, FiniteSets, TLC

(* ------------------------------------------------------------------ *)
(* Bounds of the model                                                 *)
(* ------------------------------------------------------------------ *)

\* Entries below the template root in the trees of SpecScaffold.
MaxEntries == 3

\* The I/O operation of a walk that fails is one of the first MaxOp (0: none).
MaxOp == 9

\* Command-line arguments given to main.
MaxArgs == 2

(* ------------------------------------------------------------------ *)
(* Strings                                                             *)
(* ------------------------------------------------------------------ *)

S_node_modules == <<"n", "o", "d", "e", "_", "m", "o", "d", "u", "l", "e", "s">>
S_git == <<".", "g", "i", "t">>
S_next == <<".", "n", "e", "x", "t">>
S_turbo == <<".", "t", "u", "r", "b", "o">>
S_dist == <<"d", "i", "s", "t">>
S_out == <<"o", "u", "t">>
S_vercel == <<".", "v", "e", "r", "c", "e", "l">>
S_cache == <<".", "c", "a", "c", "h", "e">>
S_DS_Store == <<".", "D", "S", "_", "S", "t", "o", "r", "e">>
S_envGlob == <<"*", ".", "e", "n", "v", "*">>
S_package_lock == <<"p", "a", "c", "k", "a", "g", "e", "-", "l", "o", "c", "k", ".", "j", "s", "o", "n">>
S_yarn_lock == <<"y", "a", "r", "n", ".", "l", "o", "c", "k">>
S_pnpm_lock == <<"p", "n", "p", "m", "-", "l", "o", "c", "k", ".", "y", "a", "m", "l">>

S_apps == <<"a", "p", "p", "s">>
S_packages == <<"p", "a", "c", "k", "a", "g", "e", "s">>
S_package_json == <<"p", "a", "c", "k", "a", "g", "e", ".", "j", "s", "o", "n">>
S_pnpm_workspace == <<"p", "n", "p", "m", "-", "w", "o", "r", "k", "s", "p", "a", "c", "e", ".", "y", "a", "m", "l">>
S_npmrc == <<".", "n", "p", "m", "r", "c">>

S_src == <<"s", "r", "c">>
S_lib == <<"l", "i", "b">>
S_env == <<"e", "n", "v">>
S_dotenv == <<".", "e", "n", "v">>

S_npm == <<"n", "p", "m">>
S_pnpm == <<"p", "n", "p", "m">>
S_yarn == <<"y", "a", "r", "n">>
S_bun == <<"b", "u", "n">>
S_yarn4 == <<"y", "a", "r", "n", "@", "4", ".", "0", ".", "0">>
S_pnpm9 == <<"p", "n", "p", "m", "@", "9", ".", "0", ".", "0">>
S_pnpm8 == <<"p", "n", "p", "m", "@", "8">>
S_appsGlob == <<"a", "p", "p", "s", "/", "*">>
S_packagesGlob == <<"p", "a", "c", "k", "a", "g", "e", "s", "/", "*">>
S_libsGlob == <<"l", "i", "b", "s", "/", "*">>
S_version1 == <<"1", ".", "0", ".", "0">>
S_template == <<"t", "e", "m", "p", "l", "a", "t", "e">>

S_demo == <<"d", "e", "m", "o">>
S_my_app == <<"m", "y", "-", "a", "p", "p">>
S_bang == <<"a", "!">>
S_web == <<"w", "e", "b">>
S_webSpaced == <<" ", "w", "e", "b", " ">>
S_blank == <<" ">>
S_flagNpm == <<"-", "-", "n", "p", "m">>
S_flagPnpm == <<"-", "-", "p", "n", "p", "m">>
S_flagYarn == <<"-", "-", "y", "a", "r", "n">>
S_flagHelp == <<"-", "-", "h", "e", "l", "p">>
S_flagH == <<"-", "h">>
S_flagPmPrefix == <<"-", "-", "p", "a", "c", "k", "a", "g", "e", "-", "m", "a", "n", "a", "g", "e", "r", "=">>
S_flagPmBun == <<"-", "-", "p", "a", "c", "k", "a", "g", "e", "-", "m", "a", "n", "a", "g", "e", "r", "=", "b", "u", "n">>

\* Array.prototype.includes / String.prototype.includes for one character.
Includes(s, c) == \E i \in 1..Len(s) : s[i] = c

\* String.prototype.startsWith
StartsWith(s, prefix) ==
  /\ Len(prefix) <= Len(s)
  /\ SubSeq(s, 1, Len(prefix)) = prefix

\* String.prototype.trim, for the space character.
RECURSIVE TrimLeft(_)
TrimLeft(s) == IF s # <<>> /\ s[1] = " " THEN TrimLeft(Tail(s)) ELSE s

RECURSIVE TrimRight(_)
TrimRight(s) ==
  IF s # <<>> /\ s[Len(s)] = " " THEN TrimRight(SubSeq(s, 1, Len(s) - 1)) ELSE s

Trim(s) == TrimRight(TrimLeft(s))

\* path.join / path.relative: the names of a path joined by "/".
RECURSIVE JoinPath(_)
JoinPath(p) ==
  IF p = <<>> THEN <<>>
  ELSE IF Len(p) = 1 THEN p[1]
  ELSE p[1] \o <<"/">> \o JoinPath(Tail(p))

(* ------------------------------------------------------------------ *)
(* shouldIgnore                                                        *)
(* ------------------------------------------------------------------ *)

IGNORE_PATTERNS ==
  << S_node_modules, S_git, S_next, S_turbo, S_dist, S_out, S_vercel,
     S_cache, S_DS_Store, S_envGlob, S_package_lock, S_yarn_lock, S_pnpm_lock >>

\* pattern.replace(/\*/g, ".*")
RECURSIVE ReplaceStar(_)
ReplaceStar(pattern) ==
  IF pattern = <<>> THEN <<>>
  ELSE IF pattern[1] = "*" THEN <<".", "*">> \o ReplaceStar(Tail(pattern))
  ELSE <<pattern[1]>> \o ReplaceStar(Tail(pattern))

\* One regular-expression atom against one character: "." is any character.
AtomMatches(atom, c) == atom = "." \/ atom = c

\* A regular expression made of atoms and of ".*" is the sequence of its
\* runs of atoms, one ".*" between two runs.
RECURSIVE Runs(_)
Runs(re) ==
  IF re = <<>> THEN << <<>> >>
  ELSE IF Len(re) >= 2 /\ re[2] = "*" THEN << <<>> >> \o Runs(SubSeq(re, 3, Len(re)))
  ELSE LET rest == Runs(Tail(re))
       IN  << <<re[1]>> \o rest[1] >> \o Tail(rest)

\* The run of atoms matches s at position p.
RunMatchesAt(run, s, p) ==
  /\ p + Len(run) <= Len(s) + 1
  /\ \A i \in 1..Len(run) : AtomMatches(run[i], s[p + i - 1])

\* The runs from the k-th on match s in this order at or after position from.
RECURSIVE RunsMatchFrom(_, _, _, _)
RunsMatchFrom(runs, k, s, from) ==
  IF k > Len(runs) THEN TRUE
  ELSE \E p \in from..(Len(s) + 1) :
         /\ RunMatchesAt(runs[k], s, p)
         /\ RunsMatchFrom(runs, k + 1, s, p + Len(runs[k]))

\* new RegExp(re).test(s): an unanchored search.
RegexTest(re, s) == RunsMatchFrom(Runs(re), 1, s, 1)

\* The patterns of the branch pattern.includes("*"), each as the regular
\* expression the loop builds from it, and the patterns of the other branch.
GlobRegexes ==
  { ReplaceStar(IGNORE_PATTERNS[i]) :
      i \in { j \in 1..Len(IGNORE_PATTERNS) : Includes(IGNORE_PATTERNS[j], "*") } }

LiteralPatterns ==
  { IGNORE_PATTERNS[i] :
      i \in { j \in 1..Len(IGNORE_PATTERNS) : ~Includes(IGNORE_PATTERNS[j], "*") } }

\* The loop returns true at the first pattern that matches.
shouldIgnore(basename, relativePath) ==
  \/ \E regex \in GlobRegexes : RegexTest(regex, basename) \/ RegexTest(regex, relativePath)
  \/ basename \in LiteralPatterns
  \/ relativePath \in LiteralPatterns

\* shouldIgnore as instantScaffold calls it for the template path p.
Ignored(p) == shouldIgnore(p[Len(p)], JoinPath(p))

(* ------------------------------------------------------------------ *)
(* Directory trees                                                     *)
(* ------------------------------------------------------------------ *)

\* The content of a directory or of a symbolic link: none.
NoContent == [raw |-> <<>>]

\* The content of an opaque file: the name it was first written under.
RawContent(p) == [raw |-> JoinPath(p)]

DirEntry(p) == [path |-> p, kind |-> "dir", text |-> <<>>, content |-> NoContent]

FileEntry(p, c) == [path |-> p, kind |-> "file", text |-> <<>>, content |-> c]

\* A symbolic link whose text is the one name t, relative to its directory.
LinkEntry(p, t) == [path |-> p, kind |-> "link", text |-> t, content |-> NoContent]

Has(fs, p) == \E e \in fs : e.path = p

Get(fs, p) == CHOOSE e \in fs : e.path = p

Parent(p) == SubSeq(p, 1, Len(p) - 1)

IsPrefix(p, q) == Len(p) <= Len(q) /\ SubSeq(q, 1, Len(p)) = p

\* Every name of the model, in the order fs.readdir lists them.
NameOrder ==
  << S_dotenv, S_npmrc, S_apps, S_env, S_lib, S_node_modules, S_package_json,
     S_packages, S_pnpm_workspace, S_src >>

\* fs.readdir(src): the names of the entries of directory src.
readdir(fs, src) ==
  SelectSeq(NameOrder, LAMBDA n : Has(fs, src \o <<n>>))

\* path.resolve(src, linkTarget), for a link text of one name.
resolve(src, linkTarget) == src \o <<linkTarget>>

\* The entry a path leads to once every link is followed (stat, access):
\* {q} for the path q of a file or a directory, {} for a missing path or a
\* loop of links.
RECURSIVE Follow(_, _, _)
Follow(fs, p, fuel) ==
  IF fuel = 0 \/ ~Has(fs, p) THEN {}
  ELSE IF Get(fs, p).kind = "link"
  THEN Follow(fs, resolve(Parent(p), Get(fs, p).text), fuel - 1)
  ELSE {p}

\* fs.pathExists(p): fs.access resolved to true, any error to false.
pathExists(fs, p) == Follow(fs, p, Cardinality(fs)) # {}

\* fs.ensureDir(p): p and its missing parents become directories.
ensureDir(fs, p) ==
  fs \cup { DirEntry(SubSeq(p, 1, k)) : k \in { j \in 0..Len(p) : ~Has(fs, SubSeq(p, 1, j)) } }

\* fs.copy(srcPath, destPath) of fs-extra, dereference left false: a file is
\* copied with its content, a symbolic link is created again as a link of
\* the same text; what was at destPath is overwritten.
copy(fs, srcPath, dest, destPath) ==
  LET e == Get(fs, srcPath)
      rest == { d \in dest : d.path # destPath }
  IN  IF e.kind = "link"
      THEN rest \cup { LinkEntry(destPath, e.text) }
      ELSE rest \cup { FileEntry(destPath, e.content) }

\* fs.remove(p): p and all below it.
remove(fs, p) == { e \in fs : ~IsPrefix(p, e.path) }

(* ------------------------------------------------------------------ *)
(* instantScaffold                                                     *)
(* ------------------------------------------------------------------ *)

\* The state of a walk: the destination tree, the I/O operations issued so
\* far, the one that fails (0: none), whether an error is propagating, and
\* records for the properties: the operation that failed, the source and
\* the destination path it was made for, and whether a catch without rethrow
\* consumed an error.
NewWalk(dest, faultAt) ==
  [dest |-> dest, n |-> 0, faultAt |-> faultAt, ok |-> TRUE,
   failed |-> "none", failedSrc |-> <<>>, failedAt |-> <<>>, swallowed |-> FALSE]

\* An awaited fs call, made for the source path p and the destination path
\* q: it throws when it is the faultAt-th of the walk.
Await(st, op, p, q) ==
  IF st.n + 1 = st.faultAt
  THEN [st EXCEPT !.n = @ + 1, !.ok = FALSE, !.failed = op,
                  !.failedSrc = p, !.failedAt = q]
  ELSE [st EXCEPT !.n = @ + 1]

\* As SymlinkCatch, the error thrown again.
SymlinkCatch_rethrows(st) == st

\* catch (error) { /* Silently handle symlink issues */ }
SymlinkCatch(st) ==
  IF st.ok THEN st ELSE [st EXCEPT !.ok = TRUE, !.swallowed = TRUE]

RECURSIVE instantScaffold(_, _, _, _)
RECURSIVE scaffoldItems(_, _, _, _, _)

\* The symbolic-link branch of the loop body, inside its own try.
scaffoldSymlink(fs, src, srcPath, destPath, st) ==
  LET r1 == Await(st, "readlink", srcPath, destPath)
      resolvedPath == resolve(src, Get(fs, srcPath).text)
      r2 == Await(r1, "lstatTarget", srcPath, destPath)
      r3 == Await(r2, "copyTarget", srcPath, destPath)
  IN  IF ~r1.ok THEN r1
      ELSE IF ~pathExists(fs, resolvedPath) THEN r1
      ELSE IF ~r2.ok THEN r2
      ELSE IF Get(fs, resolvedPath).kind = "dir"
      THEN instantScaffold(fs, resolvedPath, destPath, r2)
      ELSE IF ~r3.ok THEN r3
      ELSE [r3 EXCEPT !.dest = copy(fs, resolvedPath, @, destPath)]

\* One iteration of the for loop.
scaffoldItem(fs, src, dest, item, st) ==
  LET srcPath == src \o <<item>>
      destPath == dest \o <<item>>
      s1 == Await(st, "lstat", srcPath, destPath)
      s2 == Await(s1, "copy", srcPath, destPath)
  IN  IF Ignored(srcPath) THEN st
      ELSE IF ~s1.ok THEN s1
      ELSE IF Get(fs, srcPath).kind = "link"
      THEN SymlinkCatch(scaffoldSymlink(fs, src, srcPath, destPath, s1))
      ELSE IF Get(fs, srcPath).kind = "dir"
      THEN instantScaffold(fs, srcPath, destPath, s1)
      ELSE IF ~s2.ok THEN s2
      ELSE [s2 EXCEPT !.dest = copy(fs, srcPath, @, destPath)]

\* The for loop: a throw ends it.
scaffoldItems(fs, src, dest, items, st) ==
  IF items = <<>> \/ ~st.ok THEN st
  ELSE scaffoldItems(fs, src, dest, Tail(items),
                     scaffoldItem(fs, src, dest, Head(items), st))

\* instantScaffold(src, dest): ok = FALSE is the Error it throws.
instantScaffold(fs, src, dest, st) ==
  LET s1 == Await(st, "ensureDir", src, dest)
      s2 == Await([s1 EXCEPT !.dest = ensureDir(@, dest)], "readdir", src, dest)
  IN  IF ~s1.ok THEN s1
      ELSE IF ~s2.ok THEN s2
      ELSE scaffoldItems(fs, src, dest, readdir(fs, src), s2)

(* ------------------------------------------------------------------ *)
(* configurePackageManager, copyNpmrc, validateTemplate                *)
(* ------------------------------------------------------------------ *)

\* A JSON object is the sequence of its [k, v] pairs in insertion order; a
\* JSON string s is Str(s), a JSON array of strings a is Arr(a).
Str(s) == [t |-> "string", v |-> <<s>>]

Arr(a) == [t |-> "array", v |-> a]

JsonHas(obj, k) == \E i \in 1..Len(obj) : obj[i].k = k

JsonGet(obj, k) == obj[CHOOSE i \in 1..Len(obj) : obj[i].k = k].v

\* As JsonSet, the pair appended whether or not the key is there.
JsonSet_appends(obj, k, v) == Append(obj, [k |-> k, v |-> v])

\* obj[k] = v: an own key keeps its place, a new key is appended.
JsonSet(obj, k, v) ==
  IF JsonHas(obj, k)
  THEN [i \in 1..Len(obj) |-> IF obj[i].k = k THEN [k |-> k, v |-> v] ELSE obj[i]]
  ELSE Append(obj, [k |-> k, v |-> v])

\* delete obj[k]
JsonDelete(obj, k) == SelectSeq(obj, LAMBDA pair : pair.k # k)

\* The text of a JSON file: the object and the layout it is written in.
JsonContent(obj, fmt) == [fmt |-> fmt, json |-> obj]

\* fs.readJson succeeds on a file that holds JSON.
IsJsonFile(fs, p) ==
  /\ Follow(fs, p, Cardinality(fs)) # {}
  /\ LET e == Get(fs, CHOOSE q \in Follow(fs, p, Cardinality(fs)) : TRUE)
     IN  e.kind = "file" /\ "json" \in DOMAIN e.content

readJson(fs, p) ==
  Get(fs, CHOOSE q \in Follow(fs, p, Cardinality(fs)) : TRUE).content.json

\* fs.writeJson(p, obj, { spaces: 2 })
writeJson(fs, p, obj) ==
  { e \in fs : e.path # p } \cup { FileEntry(p, JsonContent(obj, "spaces2")) }

\* Lines 106-116: the name and the package-manager fields.
rewriteManifest(packageJson, packageManager, projectName) ==
  LET named == JsonSet(packageJson, "name", Str(projectName))
  IN  IF packageManager = S_npm
      THEN JsonDelete(named, "packageManager")
      ELSE IF packageManager = S_yarn
      THEN JsonSet(JsonSet(named, "packageManager", Str(S_yarn4)),
                   "workspaces", Arr(<<S_appsGlob, S_packagesGlob>>))
      ELSE JsonSet(named, "packageManager", Str(S_pnpm9))

\* As removesWorkspaceFile, the yarn branch forgotten.
removesWorkspaceFile_npmOnly(packageManager) == packageManager = S_npm

\* Lines 121-132: pnpm-workspace.yaml goes for npm and for yarn.
removesWorkspaceFile(packageManager) ==
  packageManager = S_npm \/ packageManager = S_yarn

\* configurePackageManager on the tree of targetDir; fault names the awaited
\* call that throws ("none": no call does).  ok = FALSE is the throw.
configurePackageManager(fs, packageManager, projectName, fault) ==
  LET packageJsonPath == <<S_package_json>>
      pnpmWorkspacePath == <<S_pnpm_workspace>>
      hasManifest == pathExists(fs, packageJsonPath)
      readFails == hasManifest /\ (fault = "readJson" \/ ~IsJsonFile(fs, packageJsonPath))
      writeFails == hasManifest /\ fault = "writeJson"
      written ==
        IF hasManifest
        THEN writeJson(fs, packageJsonPath,
               rewriteManifest(readJson(fs, packageJsonPath), packageManager, projectName))
        ELSE fs
      removing == removesWorkspaceFile(packageManager) /\ pathExists(written, pnpmWorkspacePath)
  IN  IF readFails \/ writeFails THEN [tree |-> fs, ok |-> FALSE]
      ELSE IF removing /\ fault = "remove" THEN [tree |-> written, ok |-> FALSE]
      ELSE IF removing THEN [tree |-> remove(written, pnpmWorkspacePath), ok |-> TRUE]
      ELSE [tree |-> written, ok |-> TRUE]

\* copyNpmrc(templateDir, targetDir); fails: fs.copy throws.
copyNpmrc(template, fs, fails) ==
  LET npmrcPath == <<S_npmrc>>
  IN  IF ~pathExists(template, npmrcPath) THEN [tree |-> fs, ok |-> TRUE]
      ELSE IF fails THEN [tree |-> fs, ok |-> FALSE]
      ELSE [tree |-> copy(template, npmrcPath, fs, npmrcPath), ok |-> TRUE]

requiredDirs == <<S_apps, S_packages>>

\* validateTemplate: TRUE when it returns, FALSE when it throws.
validateTemplate(template) ==
  /\ pathExists(template, <<>>)
  /\ \A i \in 1..Len(requiredDirs) : pathExists(template, <<requiredDirs[i]>>)

(* ------------------------------------------------------------------ *)
(* The inputs of main                                                  *)
(* ------------------------------------------------------------------ *)

Letters ==
  { "a", "b", "c", "d", "e", "f", "g", "h", "i", "j", "k", "l", "m",
    "n", "o", "p", "q", "r", "s", "t", "u", "v", "w", "x", "y", "z",
    "A", "B", "C", "D", "E", "F", "G", "H", "I", "J", "K", "L", "M",
    "N", "O", "P", "Q", "R", "S", "T", "U", "V", "W", "X", "Y", "Z" }

Digits == { "0", "1", "2", "3", "4", "5", "6", "7", "8", "9" }

\* /^[a-zA-Z0-9-_]+$/.test(s)
NameRegexTest(s) ==
  /\ Len(s) >= 1
  /\ \A i \in 1..Len(s) : s[i] \in Letters \cup Digits \cup {"-", "_"}

\* The validate callback of the project-name prompt: TRUE, or a message.
validate(input) ==
  IF Trim(input) = <<>> THEN FALSE
  ELSE NameRegexTest(Trim(input))

\* What may stand on the command line.
ArgUniverse ==
  { S_demo, S_bang, S_flagNpm, S_flagPnpm, S_flagYarn, S_flagPmBun, S_flagHelp }

ArgLists == UNION { [1..n -> ArgUniverse] : n \in 0..MaxArgs }

\* What the user may type at the project-name prompt.
PromptInputs == { S_demo, S_my_app, S_webSpaced, S_bang, S_blank }

\* The choices of the package-manager prompt.
PromptChoices == { S_npm, S_pnpm, S_yarn }

\* The directory names of process.cwd() the run can touch.
DirNames ==
  ArgUniverse \cup { Trim(i) : i \in { x \in PromptInputs : validate(x) } } \cup { S_my_app }

\* A directory the user made before the run.
UserDir == { DirEntry(<<>>), FileEntry(<<S_src>>, RawContent(<<S_src>>)) }

\* args.includes('--help') || args.includes('-h')
helpAsked(argv) == \E i \in 1..Len(argv) : argv[i] = S_flagHelp \/ argv[i] = S_flagH

\* args[0] as a condition: undefined and "" are falsy.
firstArgGiven(argv) == Len(argv) >= 1 /\ argv[1] # <<>>

isPackageManagerArg(arg) ==
  \/ StartsWith(arg, S_flagPmPrefix)
  \/ arg = S_flagNpm
  \/ arg = S_flagPnpm
  \/ arg = S_flagYarn

\* args.find(...): the first matching argument, <<>> for undefined.
packageManagerArg(argv) ==
  IF \E i \in 1..Len(argv) : isPackageManagerArg(argv[i])
  THEN argv[CHOOSE i \in 1..Len(argv) :
              /\ isPackageManagerArg(argv[i])
              /\ \A j \in 1..(i - 1) : ~isPackageManagerArg(argv[j])]
  ELSE <<>>

\* s.split('=')[1]
RECURSIVE UpToEquals(_)
UpToEquals(s) ==
  IF s = <<>> \/ s[1] = "=" THEN <<>> ELSE <<s[1]>> \o UpToEquals(Tail(s))

splitEquals1(s) ==
  UpToEquals(SubSeq(s, Len(UpToEquals(s)) + 2, Len(s)))

\* Lines 274-280.
packageManagerOfArg(arg) ==
  IF arg = S_flagNpm THEN S_npm
  ELSE IF arg = S_flagPnpm THEN S_pnpm
  ELSE IF arg = S_flagYarn THEN S_yarn
  ELSE splitEquals1(arg)

\* const projectName = args[0] || "my-app" of the catch block.
cleanupName(argv) == IF firstArgGiven(argv) THEN argv[1] ELSE S_my_app

(* ------------------------------------------------------------------ *)
(* Templates                                                           *)
(* ------------------------------------------------------------------ *)

\* The names of the trees of SpecScaffold: two plain names, and one that the
\* "*.env*" pattern ignores below the root and not at the root.
Names == { S_src, S_lib, S_env }

\* The trees with one entry more than t.
Extensions(t) ==
  UNION { UNION { { t \cup {FileEntry(d.path \o <<n>>, RawContent(d.path \o <<n>>))},
                    t \cup {DirEntry(d.path \o <<n>>)} }
                  \cup { t \cup {LinkEntry(d.path \o <<n>>, x)} : x \in Names }
                  : n \in { m \in Names : ~Has(t, d.path \o <<m>>) } }
          : d \in { e \in t : e.kind = "dir" } }

RECURSIVE TreesUpTo(_)
TreesUpTo(n) ==
  IF n = 0 THEN { {DirEntry(<<>>)} }
  ELSE TreesUpTo(n - 1) \cup UNION { Extensions(t) : t \in TreesUpTo(n - 1) }

TemplateManifest ==
  << [k |-> "name", v |-> Str(S_template)],
     [k |-> "version", v |-> Str(S_version1)],
     [k |-> "packageManager", v |-> Str(S_pnpm8)] >>

\* templates/basic as the package ships it, cut to its top level, with a
\* .env and a node_modules left behind by a local install.
FullTemplate ==
  { DirEntry(<<>>), DirEntry(<<S_apps>>), DirEntry(<<S_packages>>),
    FileEntry(<<S_package_json>>, JsonContent(TemplateManifest, "original")),
    FileEntry(<<S_pnpm_workspace>>, RawContent(<<S_pnpm_workspace>>)),
    FileEntry(<<S_npmrc>>, RawContent(<<S_npmrc>>)),
    FileEntry(<<S_dotenv>>, RawContent(<<S_dotenv>>)),
    DirEntry(<<S_node_modules>>),
    FileEntry(<<S_node_modules, S_src>>, RawContent(<<S_node_modules, S_src>>)) }

MainTemplates ==
  { FullTemplate,
    remove(FullTemplate, <<S_apps>>),
    remove(FullTemplate, <<S_packages>>),
    remove(remove(remove(FullTemplate, <<S_package_json>>), <<S_npmrc>>), <<S_pnpm_workspace>>),
    {} }

(* ------------------------------------------------------------------ *)
(* installDependencies                                                 *)
(* ------------------------------------------------------------------ *)

\* resolve() and reject() of the promise: only a pending promise settles.
resolve_(promise) == IF promise = "pending" THEN "resolved" ELSE promise

reject_(promise) == IF promise = "pending" THEN "rejected" ELSE promise

\* The state of the background installation before it is started.
NoInstall ==
  [started |-> FALSE, promise |-> "none", closed |-> FALSE, errored |-> FALSE,
   timerFired |-> FALSE, kills |-> 0, log |-> <<>>, tree |-> {}]

\* installDependencies(targetDir, packageManager): the child is spawned, the
\* handlers and the timer are set; tree records targetDir as it is then, log
\* the events in the order they come.
installDependencies(tree) ==
  [started |-> TRUE, promise |-> "pending", closed |-> FALSE, errored |-> FALSE,
   timerFired |-> FALSE, kills |-> 0, log |-> <<>>, tree |-> tree]

\* child.on("error", ...)
onError(inst) ==
  [inst EXCEPT !.errored = TRUE, !.promise = resolve_(@), !.log = Append(@, "error")]

\* As onClose, a failed installation rejecting the promise.
onClose_rejects(inst, code) ==
  IF code = "0"
  THEN [inst EXCEPT !.closed = TRUE, !.promise = resolve_(@), !.log = Append(@, "close")]
  ELSE [inst EXCEPT !.closed = TRUE, !.promise = reject_(@), !.log = Append(@, "close")]

\* child.on("close", (code) => ...): both branches resolve.
onClose(inst, code) ==
  IF code = "0"
  THEN [inst EXCEPT !.closed = TRUE, !.promise = resolve_(@), !.log = Append(@, "close")]
  ELSE [inst EXCEPT !.closed = TRUE, !.promise = resolve_(@), !.log = Append(@, "close")]

\* setTimeout(() => { child.kill(); resolve(); }, 5000)
onTimeout(inst) ==
  [inst EXCEPT !.timerFired = TRUE, !.kills = @ + 1, !.promise = resolve_(@),
               !.log = Append(@, "timeout")]

\* process.on("unhandledRejection"): a rejected promise nobody awaits ends
\* the process with code 1.
afterEvent(code, inst) == IF inst.promise = "rejected" THEN "exit1" ELSE code

(* ------------------------------------------------------------------ *)
(* State                                                               *)
(* ------------------------------------------------------------------ *)

VARIABLES
  tmpl,            \* the tree of templateDir ({}: no such directory)
  cwd,             \* the directories of process.cwd(), by name ({}: absent)
  cwd0,            \* cwd when the process started
  args,            \* process.argv.slice(2)
  pc,              \* where main is
  projectName,     \* main's projectName (<<>>: not yet set)
  packageManager,  \* main's packageManager
  targetDir,       \* main's targetDir, as a name of cwd (<<>>: not yet set)
  walk,            \* the last instantScaffold: its operations and its outcome
  thrownBy,        \* the call whose error reached main's catch block
  removed,         \* the names the catch block removed from cwd
  cleanup,         \* the catch block: "none" (not run), "nothing" (no such
                   \* directory), "removed" or "warned" (fs.remove threw)
  nameFrom,        \* "arg" or "prompt": where projectName came from
  exitCode,        \* "running", "exit0" or "exit1"
  install,         \* the background installation
  once,            \* SpecCfg: the tree after the first application
  applied          \* SpecCfg: how many times configurePackageManager ran

vars ==
  << tmpl, cwd, cwd0, args, pc, projectName, packageManager, targetDir, walk,
     thrownBy, removed, cleanup, nameFrom, exitCode, install, once, applied >>

WalkInfo(st) ==
  [n |-> st.n, faultAt |-> st.faultAt, ok |-> st.ok, failed |-> st.failed,
   failedSrc |-> st.failedSrc, failedAt |-> st.failedAt, swallowed |-> st.swallowed]

\* What a run starts from, but for its inputs.
Fresh ==
  /\ pc = "start"
  /\ projectName = <<>>
  /\ packageManager = S_pnpm
  /\ targetDir = <<>>
  /\ walk = WalkInfo(NewWalk({}, 0))
  /\ thrownBy = "none"
  /\ removed = {}
  /\ cleanup = "none"
  /\ nameFrom = "none"
  /\ exitCode = "running"
  /\ install = NoInstall
  /\ once = {}
  /\ applied = 0

Init ==
  /\ tmpl \in MainTemplates
  /\ args \in ArgLists
  /\ \E pre \in SUBSET {S_demo, S_my_app} :
       cwd = [n \in DirNames |-> IF n \in pre THEN UserDir ELSE {}]
  /\ cwd0 = cwd
  /\ Fresh

(* ------------------------------------------------------------------ *)
(* main                                                                *)
(* ------------------------------------------------------------------ *)

\* Lines 232-235: help asked, main returns.
ShowHelp ==
  /\ pc = "start"
  /\ helpAsked(args)
  /\ pc' = "returned"
  /\ UNCHANGED << tmpl, cwd, cwd0, args, projectName, packageManager, targetDir,
                  walk, thrownBy, removed, cleanup, nameFrom, exitCode, install, once, applied >>

\* Line 244: validateTemplate returns.
ValidateOk ==
  /\ pc = "start"
  /\ ~helpAsked(args)
  /\ validateTemplate(tmpl)
  /\ pc' = "name"
  /\ UNCHANGED << tmpl, cwd, cwd0, args, projectName, packageManager, targetDir,
                  walk, thrownBy, removed, cleanup, nameFrom, exitCode, install, once, applied >>

\* Line 244: validateTemplate throws.
ValidateThrow ==
  /\ pc = "start"
  /\ ~helpAsked(args)
  /\ ~validateTemplate(tmpl)
  /\ pc' = "catch"
  /\ thrownBy' = "validateTemplate"
  /\ UNCHANGED << tmpl, cwd, cwd0, args, projectName, packageManager, targetDir,
                  walk, removed, cleanup, nameFrom, exitCode, install, once, applied >>

\* Lines 248-250: the positional argument is the project name.
NameFromArg ==
  /\ pc = "name"
  /\ firstArgGiven(args)
  /\ projectName' = args[1]
  /\ nameFrom' = "arg"
  /\ pc' = "pm"
  /\ UNCHANGED << tmpl, cwd, cwd0, args, packageManager, targetDir, walk,
                  thrownBy, removed, cleanup, exitCode, install, once, applied >>

\* Lines 250-267: the prompt returns an input its validate accepted.
NameFromPrompt ==
  /\ pc = "name"
  /\ ~firstArgGiven(args)
  /\ \E input \in PromptInputs :
       /\ validate(input)
       /\ projectName' = Trim(input)
  /\ nameFrom' = "prompt"
  /\ pc' = "pm"
  /\ UNCHANGED << tmpl, cwd, cwd0, args, packageManager, targetDir, walk,
                  thrownBy, removed, cleanup, exitCode, install, once, applied >>

\* Lines 272-280: the package manager of the command line.
PmFromArg ==
  /\ pc = "pm"
  /\ packageManagerArg(args) # <<>>
  /\ packageManager' = packageManagerOfArg(packageManagerArg(args))
  /\ pc' = "check"
  /\ UNCHANGED << tmpl, cwd, cwd0, args, projectName, targetDir, walk, thrownBy,
                  removed, cleanup, nameFrom, exitCode, install, once, applied >>

\* Lines 281-297: the package manager of the prompt.
PmFromPrompt ==
  /\ pc = "pm"
  /\ packageManagerArg(args) = <<>>
  /\ packageManager' \in PromptChoices
  /\ pc' = "check"
  /\ UNCHANGED << tmpl, cwd, cwd0, args, projectName, targetDir, walk, thrownBy,
                  removed, cleanup, nameFrom, exitCode, install, once, applied >>

\* As TargetExists, an Error thrown where process.exit(1) stands.
TargetExists_throws ==
  /\ pc = "check"
  /\ pathExists(cwd[projectName], <<>>)
  /\ targetDir' = projectName
  /\ thrownBy' = "targetExists"
  /\ pc' = "catch"
  /\ UNCHANGED << tmpl, cwd, cwd0, args, projectName, packageManager, walk,
                  removed, cleanup, nameFrom, exitCode, install, once, applied >>

\* Lines 299-307: the target exists, process.exit(1).
TargetExists ==
  /\ pc = "check"
  /\ pathExists(cwd[projectName], <<>>)
  /\ targetDir' = projectName
  /\ exitCode' = "exit1"
  /\ pc' = "exited"
  /\ UNCHANGED << tmpl, cwd, cwd0, args, projectName, packageManager, walk,
                  thrownBy, removed, cleanup, nameFrom, install, once, applied >>

\* Lines 299-303: the target does not exist.
TargetFree ==
  /\ pc = "check"
  /\ ~pathExists(cwd[projectName], <<>>)
  /\ targetDir' = projectName
  /\ pc' = "scaffold"
  /\ UNCHANGED << tmpl, cwd, cwd0, args, projectName, packageManager, walk,
                  thrownBy, removed, cleanup, nameFrom, exitCode, install, once, applied >>

\* Line 315: await instantScaffold(templateDir, targetDir, ...).
Scaffold ==
  /\ pc = "scaffold"
  /\ \E faultAt \in 0..MaxOp :
       LET r == instantScaffold(tmpl, <<>>, <<>>, NewWalk(cwd[targetDir], faultAt))
       IN  /\ cwd' = [cwd EXCEPT ![targetDir] = r.dest]
           /\ walk' = WalkInfo(r)
           /\ pc' = IF r.ok THEN "configure" ELSE "catch"
           /\ thrownBy' = IF r.ok THEN thrownBy ELSE "instantScaffold"
  /\ UNCHANGED << tmpl, cwd0, args, projectName, packageManager, targetDir,
                  removed, cleanup, nameFrom, exitCode, install, once, applied >>

CfgFaults == { "none", "readJson", "writeJson", "remove" }

\* Line 316: await configurePackageManager(targetDir, packageManager, projectName).
Configure ==
  /\ pc = "configure"
  /\ \E fault \in CfgFaults :
       LET r == configurePackageManager(cwd[targetDir], packageManager, projectName, fault)
       IN  /\ cwd' = [cwd EXCEPT ![targetDir] = r.tree]
           /\ pc' = IF r.ok THEN "npmrc" ELSE "catch"
           /\ thrownBy' = IF r.ok THEN thrownBy ELSE "configurePackageManager"
  /\ UNCHANGED << tmpl, cwd0, args, projectName, packageManager, targetDir, walk,
                  removed, cleanup, nameFrom, exitCode, install, once, applied >>

\* Line 317: await copyNpmrc(templateDir, targetDir).
CopyNpmrc ==
  /\ pc = "npmrc"
  /\ \E fails \in BOOLEAN :
       LET r == copyNpmrc(tmpl, cwd[targetDir], fails)
       IN  /\ cwd' = [cwd EXCEPT ![targetDir] = r.tree]
           /\ pc' = IF r.ok THEN "install" ELSE "catch"
           /\ thrownBy' = IF r.ok THEN thrownBy ELSE "copyNpmrc"
  /\ UNCHANGED << tmpl, cwd0, args, projectName, packageManager, targetDir, walk,
                  removed, cleanup, nameFrom, exitCode, install, once, applied >>

\* Lines 335-337 and on, for pnpm: the installer is started and not awaited;
\* main returns.
StartInstall ==
  /\ pc = "install"
  /\ packageManager = S_pnpm
  /\ install' = installDependencies(cwd[targetDir])
  /\ pc' = "returned"
  /\ UNCHANGED << tmpl, cwd, cwd0, args, projectName, packageManager, targetDir,
                  walk, thrownBy, removed, cleanup, nameFrom, exitCode, once, applied >>

\* Lines 335-360 for another package manager: main returns.
SkipInstall ==
  /\ pc = "install"
  /\ packageManager # S_pnpm
  /\ pc' = "returned"
  /\ UNCHANGED << tmpl, cwd, cwd0, args, projectName, packageManager, targetDir,
                  walk, thrownBy, removed, cleanup, nameFrom, exitCode, install, once, applied >>

\* Lines 362-380: the catch block.
Catch ==
  /\ pc = "catch"
  /\ \E removeFails \in BOOLEAN :
       LET name == cleanupName(args)
       IN  IF ~pathExists(cwd[name], <<>>)
           THEN /\ cleanup' = "nothing"
                /\ UNCHANGED << cwd, removed >>
           ELSE IF removeFails
           THEN /\ cleanup' = "warned"
                /\ UNCHANGED << cwd, removed >>
           ELSE /\ cwd' = [cwd EXCEPT ![name] = remove(@, <<>>)]
                /\ removed' = removed \cup {name}
                /\ cleanup' = "removed"
  /\ exitCode' = "exit1"
  /\ pc' = "exited"
  /\ UNCHANGED << tmpl, cwd0, args, projectName, packageManager, targetDir, walk,
                  thrownBy, nameFrom, install, once, applied >>

\* The child's "error" event.
ChildError ==
  /\ install.started
  /\ exitCode = "running"
  /\ ~install.errored
  /\ ~install.closed
  /\ install' = onError(install)
  /\ exitCode' = afterEvent(exitCode, install')
  /\ UNCHANGED << tmpl, cwd, cwd0, args, pc, projectName, packageManager,
                  targetDir, walk, thrownBy, removed, cleanup, nameFrom, once, applied >>

\* The child's "close" event; the code is null when a signal ended it.
ChildClose ==
  /\ install.started
  /\ exitCode = "running"
  /\ ~install.closed
  /\ \E code \in { "0", "1", "null" } : install' = onClose(install, code)
  /\ exitCode' = afterEvent(exitCode, install')
  /\ UNCHANGED << tmpl, cwd, cwd0, args, pc, projectName, packageManager,
                  targetDir, walk, thrownBy, removed, cleanup, nameFrom, once, applied >>

\* The 5000 ms timer.
CapTimer ==
  /\ install.started
  /\ exitCode = "running"
  /\ ~install.timerFired
  /\ install' = onTimeout(install)
  /\ exitCode' = afterEvent(exitCode, install')
  /\ UNCHANGED << tmpl, cwd, cwd0, args, pc, projectName, packageManager,
                  targetDir, walk, thrownBy, removed, cleanup, nameFrom, once, applied >>

\* main has returned and nothing keeps the event loop alive: exit code 0.
ProcessExit ==
  /\ pc = "returned"
  /\ exitCode = "running"
  /\ install.started => install.timerFired /\ (install.closed \/ install.errored)
  /\ exitCode' = "exit0"
  /\ pc' = "exited"
  /\ UNCHANGED << tmpl, cwd, cwd0, args, projectName, packageManager, targetDir,
                  walk, thrownBy, removed, cleanup, nameFrom, install, once, applied >>

Next ==
  \/ ShowHelp
  \/ ValidateOk
  \/ ValidateThrow
  \/ NameFromArg
  \/ NameFromPrompt
  \/ PmFromArg
  \/ PmFromPrompt
  \/ TargetExists
  \/ TargetFree
  \/ Scaffold
  \/ Configure
  \/ CopyNpmrc
  \/ StartInstall
  \/ SkipInstall
  \/ Catch
  \/ ChildError
  \/ ChildClose
  \/ CapTimer
  \/ ProcessExit

Spec == Init /\ [][Next]_vars

(* ------------------------------------------------------------------ *)
(* instantScaffold over every small template                           *)
(* ------------------------------------------------------------------ *)

InitScaffold ==
  /\ tmpl \in TreesUpTo(MaxEntries)
  /\ args = <<S_demo>>
  /\ cwd = [n \in DirNames |-> {}]
  /\ cwd0 = cwd
  /\ pc = "scaffold"
  /\ projectName = S_demo
  /\ packageManager = S_pnpm
  /\ targetDir = S_demo
  /\ walk = WalkInfo(NewWalk({}, 0))
  /\ thrownBy = "none"
  /\ removed = {}
  /\ cleanup = "none"
  /\ nameFrom = "arg"
  /\ exitCode = "running"
  /\ install = NoInstall
  /\ once = {}
  /\ applied = 0

SpecScaffold == InitScaffold /\ [][Scaffold]_vars

(* ------------------------------------------------------------------ *)
(* configurePackageManager over every small destination                *)
(* ------------------------------------------------------------------ *)

\* The manifests of SpecCfg: each field present or absent, with some values,
\* in two orders of the keys.
CfgManifests ==
  LET nameOpts == { <<>>, << [k |-> "name", v |-> Str(S_template)] >> }
      versionOpts == { <<>>, << [k |-> "version", v |-> Str(S_version1)] >> }
      pmOpts == { <<>>,
                  << [k |-> "packageManager", v |-> Str(S_pnpm8)] >>,
                  << [k |-> "packageManager", v |-> Str(S_yarn4)] >> }
      wsOpts == { <<>>,
                  << [k |-> "workspaces", v |-> Arr(<<S_libsGlob>>)] >>,
                  << [k |-> "workspaces", v |-> Arr(<<S_appsGlob, S_packagesGlob>>)] >> }
  IN  UNION { { n \o v \o p \o w, w \o p \o v \o n } :
              << n, v, p, w >> \in nameOpts \X versionOpts \X pmOpts \X wsOpts }

\* The destinations of SpecCfg: package.json absent or one of the manifests
\* in either layout, pnpm-workspace.yaml present or absent.
CfgTrees ==
  LET manifests ==
        { {} } \cup
        { { FileEntry(<<S_package_json>>, JsonContent(m, fmt)) } :
            << m, fmt >> \in CfgManifests \X { "original", "spaces2" } }
      yamls ==
        { {}, { FileEntry(<<S_pnpm_workspace>>, RawContent(<<S_pnpm_workspace>>)) } }
  IN  { { DirEntry(<<>>) } \cup m \cup y : << m, y >> \in manifests \X yamls }

InitCfg ==
  /\ tmpl = FullTemplate
  /\ args = <<S_demo>>
  /\ \E tree \in CfgTrees :
       cwd = [n \in DirNames |-> IF n = S_demo THEN tree ELSE {}]
  /\ cwd0 = cwd
  /\ pc = "cfg"
  /\ projectName \in { S_demo, S_web }
  /\ packageManager \in { S_npm, S_pnpm, S_yarn, S_bun }
  /\ targetDir = S_demo
  /\ walk = WalkInfo(NewWalk({}, 0))
  /\ thrownBy = "none"
  /\ removed = {}
  /\ cleanup = "none"
  /\ nameFrom = "arg"
  /\ exitCode = "running"
  /\ install = NoInstall
  /\ once = {}
  /\ applied = 0

\* configurePackageManager(targetDir, packageManager, projectName), no call
\* of it failing.
ConfigureOnce ==
  /\ pc = "cfg"
  /\ applied = 0
  /\ LET r == configurePackageManager(cwd[targetDir], packageManager, projectName, "none")
     IN  /\ r.ok
         /\ cwd' = [cwd EXCEPT ![targetDir] = r.tree]
         /\ once' = r.tree
  /\ applied' = 1
  /\ UNCHANGED << tmpl, cwd0, args, pc, projectName, packageManager, targetDir, walk,
                  thrownBy, removed, cleanup, nameFrom, exitCode, install >>

\* The same call again, on what the first left.
ConfigureTwice ==
  /\ pc = "cfg"
  /\ applied = 1
  /\ LET r == configurePackageManager(cwd[targetDir], packageManager, projectName, "none")
     IN  /\ r.ok
         /\ cwd' = [cwd EXCEPT ![targetDir] = r.tree]
  /\ applied' = 2
  /\ UNCHANGED << tmpl, cwd0, args, pc, projectName, packageManager, targetDir, walk,
                  thrownBy, removed, cleanup, nameFrom, exitCode, install, once >>

SpecCfg == InitCfg /\ [][ConfigureOnce \/ ConfigureTwice]_vars

(* ------------------------------------------------------------------ *)
(* Properties                                                          *)
(* ------------------------------------------------------------------ *)

\* instantScaffold has returned or thrown.
ScaffoldDone == pc \in { "configure", "catch" }

TargetTree == cwd[targetDir]

\* The tree the template stands for: its entries but the ignored ones, each
\* symbolic link replaced by what it leads to once every link is followed.
RECURSIVE ExpectedAt(_, _, _)
ExpectedAt(fs, src, dest) ==
  { DirEntry(dest) } \cup
  UNION { LET srcPath == src \o <<n>>
              destPath == dest \o <<n>>
              final == Follow(fs, srcPath, Cardinality(fs))
          IN  IF Ignored(srcPath) \/ final = {} THEN {}
              ELSE LET q == CHOOSE x \in final : TRUE
                   IN  IF Get(fs, q).kind = "dir"
                       THEN ExpectedAt(fs, q, destPath)
                       ELSE { FileEntry(destPath, Get(fs, q).content) }
          : n \in { NameOrder[i] : i \in { j \in 1..Len(NameOrder) : Has(fs, src \o <<NameOrder[j]>>) } } }

\* C1: with no I/O failure, instantScaffold into an empty destination leaves
\* exactly the template minus the ignored entries, every symbolic link with an
\* existing target replaced by a physical copy of the target's content.
C1_DestinationMirrorsTemplate ==
  (pc = "configure" /\ walk.failed = "none") => TargetTree = ExpectedAt(tmpl, <<>>, <<>>)

\* The target directory had been created when the error was thrown.
TargetWasCreated == ~(walk.failed = "ensureDir" /\ walk.n = 1)

\* C2: when instantScaffold, configurePackageManager or copyNpmrc fails after
\* the target directory was created and the removal does not fail, the
\* directory removed is the target directory and it is gone at exit.
C2_CleanupRemovesTarget ==
  ( /\ pc = "exited"
    /\ thrownBy \in { "instantScaffold", "configurePackageManager", "copyNpmrc" }
    /\ TargetWasCreated
    /\ cleanup # "warned" )
  => /\ ~pathExists(TargetTree, <<>>)
     /\ removed = { targetDir }

\* The run was refused at the existence check.
Refused == pc = "exited" /\ exitCode = "exit1" /\ thrownBy = "none"

\* C3: a target directory that exists at the existence check ends the run
\* there with exit code 1: no scaffold call, no configuration, no cleanup,
\* and every directory of cwd as it was.
C3_ExistingTargetIsRefused ==
  /\ [][ (pc = "check" /\ pathExists(cwd[projectName], <<>>))
           => /\ pc' = "exited"
              /\ exitCode' = "exit1"
              /\ cwd' = cwd0
              /\ walk'.n = 0
              /\ cleanup' = "none"
              /\ removed' = {}
              /\ ~install'.started ]_vars
  /\ [](Refused => cwd = cwd0 /\ walk.n = 0 /\ cleanup = "none" /\ removed = {})

C3_Witness ==
  /\ Refused
  /\ targetDir = projectName
  /\ cwd0[targetDir] = UserDir
  /\ cwd[targetDir] = UserDir

\* C4: when validateTemplate throws, the run ends with exit code 1 and no
\* directory of cwd was written or removed.
C4_ValidationFailureTouchesNothing ==
  (pc = "exited" /\ thrownBy = "validateTemplate")
  => /\ exitCode = "exit1"
     /\ cwd = cwd0
     /\ removed = {}

JsonKeys(obj) == { obj[i].k : i \in 1..Len(obj) }

SameField(a, b, k) ==
  /\ JsonHas(a, k) <=> JsonHas(b, k)
  /\ JsonHas(a, k) => JsonGet(a, k) = JsonGet(b, k)

\* C5: after configurePackageManager on a destination with a package.json,
\* name is projectName, the other fields but packageManager and workspaces
\* are unchanged, and packageManager, workspaces and pnpm-workspace.yaml are
\* what the chosen package manager asks for.
C5_ManifestMatchesPackageManager ==
  (applied = 1 /\ pathExists(cwd0[targetDir], <<S_package_json>>))
  => LET before == readJson(cwd0[targetDir], <<S_package_json>>)
         after == readJson(TargetTree, <<S_package_json>>)
         yamlBefore == pathExists(cwd0[targetDir], <<S_pnpm_workspace>>)
         yamlAfter == pathExists(TargetTree, <<S_pnpm_workspace>>)
     IN  /\ IsJsonFile(TargetTree, <<S_package_json>>)
         /\ JsonHas(after, "name")
         /\ JsonGet(after, "name") = Str(projectName)
         /\ \A k \in (JsonKeys(before) \cup JsonKeys(after))
                       \ { "name", "packageManager", "workspaces" } :
              SameField(before, after, k)
         /\ packageManager = S_npm =>
              /\ ~JsonHas(after, "packageManager")
              /\ SameField(before, after, "workspaces")
              /\ ~yamlAfter
         /\ packageManager = S_yarn =>
              /\ JsonHas(after, "packageManager")
              /\ JsonGet(after, "packageManager") = Str(S_yarn4)
              /\ JsonHas(after, "workspaces")
              /\ JsonGet(after, "workspaces") = Arr(<<S_appsGlob, S_packagesGlob>>)
              /\ ~yamlAfter
         /\ packageManager = S_pnpm =>
              /\ JsonHas(after, "packageManager")
              /\ JsonGet(after, "packageManager") = Str(S_pnpm9)
              /\ yamlBefore => yamlAfter

C5_Witness ==
  /\ applied = 1
  /\ packageManager = S_yarn
  /\ pathExists(cwd0[targetDir], <<S_pnpm_workspace>>)
  /\ pathExists(cwd0[targetDir], <<S_package_json>>)
  /\ JsonHas(readJson(cwd0[targetDir], <<S_package_json>>), "workspaces")
  /\ JsonGet(readJson(cwd0[targetDir], <<S_package_json>>), "workspaces") = Arr(<<S_libsGlob>>)
  /\ ~pathExists(TargetTree, <<S_pnpm_workspace>>)

\* C6: configurePackageManager applied twice with the same inputs leaves the
\* manifest and the files that applying it once leaves.
C6_ConfigureIsIdempotent == applied = 2 => TargetTree = once

C6_Witness ==
  /\ applied = 2
  /\ once # cwd0[targetDir]
  /\ pathExists(once, <<S_package_json>>)
  /\ packageManager = S_yarn
  /\ ~JsonHas(readJson(cwd0[targetDir], <<S_package_json>>), "workspaces")

\* C7: the project name configurePackageManager is called with, which also
\* names the target directory, holds only letters, digits, hyphens and
\* underscores.
C7_ProjectNameIsValidated ==
  pc = "configure" => NameRegexTest(projectName) /\ targetDir = projectName

\* C8: an I/O failure other than one of resolving a symbolic link (creating
\* a directory, listing one, the lstat of an entry, copying a file) makes
\* instantScaffold throw, at every depth.
C8_IoFailureFailsScaffold ==
  ( /\ ScaffoldDone
    /\ walk.failed \in { "ensureDir", "readdir", "lstat", "copy", "copyTarget" } )
  => ~walk.ok

\* The walk reaches p by directories alone, none of them and not p ignored.
VisitedDirectly(fs, p) ==
  \A k \in 1..Len(p) :
    /\ ~Ignored(SubSeq(p, 1, k))
    /\ k < Len(p) => Get(fs, SubSeq(p, 1, k)).kind = "dir"

\* A symbolic link whose target does not exist.
BrokenLink(fs, e) ==
  e.kind = "link" /\ ~pathExists(fs, resolve(Parent(e.path), e.text))

\* The files and directories of srcDir that are not ignored have their entry
\* in destDir.
SiblingsProcessed(fs, srcDir, dest, destDir) ==
  \A f \in fs :
    ( /\ Len(f.path) = Len(srcDir) + 1
      /\ Parent(f.path) = srcDir
      /\ ~Ignored(f.path)
      /\ f.kind \in { "file", "dir" } )
    => \E d \in dest :
         /\ d.path = destDir \o <<f.path[Len(f.path)]>>
         /\ d.kind = f.kind
         /\ d.content = f.content

\* C9: a symbolic link that is not ignored and whose target does not exist,
\* or whose resolution raises an error, leaves no entry at its destination
\* path, does not make instantScaffold throw and does not keep the other
\* entries of its directory from being processed.
C9_BrokenLinksAreSkipped ==
  (ScaffoldDone /\ walk.failed \in { "none", "readlink", "lstatTarget" })
  => /\ walk.ok
     /\ \A e \in tmpl :
          (BrokenLink(tmpl, e) /\ VisitedDirectly(tmpl, e.path))
          => /\ ~Has(TargetTree, e.path)
             /\ SiblingsProcessed(tmpl, Parent(e.path), TargetTree, Parent(e.path))
     /\ walk.failed # "none" =>
          /\ ~Has(TargetTree, walk.failedAt)
          /\ SiblingsProcessed(tmpl, Parent(walk.failedSrc), TargetTree, Parent(walk.failedAt))

NamePos(n) == CHOOSE i \in 1..Len(NameOrder) : NameOrder[i] = n

C9_Witness ==
  /\ pc = "configure"
  /\ walk.failed = "readlink"
  /\ \E e \in tmpl :
       /\ BrokenLink(tmpl, e)
       /\ VisitedDirectly(tmpl, e.path)
       /\ \E f \in tmpl :
            /\ f.kind = "file"
            /\ Len(f.path) = Len(e.path)
            /\ Parent(f.path) = Parent(e.path)
            /\ NamePos(f.path[Len(f.path)]) > NamePos(e.path[Len(e.path)])
            /\ Has(TargetTree, f.path)

\* C10: whatever the order of the installer's error event, close event and
\* the timer, the promise is resolved and never rejected, the timer sends the
\* kill, the target directory stays as it was scaffolded and the run does not
\* end in failure.
C10_InstallNeverFailsTheRun ==
  install.started
  => /\ install.promise \in { "pending", "resolved" }
     /\ install.log # <<>> => install.promise = "resolved"
     /\ install.timerFired => install.kills = 1
     /\ ~install.timerFired => install.kills = 0
     /\ TargetTree = install.tree
     /\ exitCode # "exit1"
     /\ cleanup = "none"
     /\ removed = {}

C10_Witness ==
  /\ install.log = << "error", "close", "timeout" >>
  /\ install.kills = 1
  /\ install.promise = "resolved"
  /\ exitCode = "exit0"
  /\ pathExists(TargetTree, <<S_package_json>>)

====
